---- MODULE Spec2Model ----
(***************************************************************************)
(* WindShowApp: the TCIPI calculator (TCIPIPROJECT/TCIPIapp.py, the        *)
(* ocean-heat-content variant with the size adjustment; TCIPIapp.py, the   *)
(* lower-convergence variant) and the station wind feed (testwind.py).     *)
(*                                                                         *)
(* Numbers.  Python floats are modelled as exact rationals <<n, d>> in     *)
(* lowest terms with d > 0.  Where the double arithmetic of the source is  *)
(* inexact and the exact value is a rounding tie (the weighted sum of      *)
(* calculate_tcipi, whose weights 0.35, 0.30 and 0.05 are no binary        *)
(* fractions), the model allows both neighbours of the tie.                *)
(***************************************************************************)
EXTENDS Integers, Sequences, FiniteSets, TLC

VARIABLES
    \* TCIPIPROJECT/TCIPIapp.py: the widgets' values ...
    sst, wind_shear, humidity, upper_divergence, ohc, size_adjustment,
    \* ... and what one run of the script computes from them
    sst_score, shear_score, humidity_score, divergence_score, ohc_score,
    base_tcipi, base_category, final_tcipi, category,
    \* one call of a function: its name, argument, intermediate value, result
    fn, arg, raw, out, fpc,
    \* testwind.py: what the weather service answers for each station, the
    \* station the loop is at, each station's reading and place on the page,
    \* the stations fetched so far in order, and where the script is
    server, pos, reading, page, fetched, wpc

appVars == <<sst, wind_shear, humidity, upper_divergence, ohc, size_adjustment,
             sst_score, shear_score, humidity_score, divergence_score, ohc_score,
             base_tcipi, base_category, final_tcipi, category>>
fnVars == <<fn, arg, raw, out, fpc>>
windVars == <<server, pos, reading, page, fetched, wpc>>
vars == <<appVars, fnVars, windVars>>

----------------------------------------------------------------------------
(* Exact rational arithmetic *)

Abs(n) == IF n < 0 THEN -n ELSE n

RECURSIVE GCD(_, _)
GCD(a, b) == IF b = 0 THEN a ELSE GCD(b, a % b)

\* n/d in lowest terms, d > 0
Reduce(n, d, g) ==
    IF d < 0 THEN <<(-n) \div g, (-d) \div g>> ELSE <<n \div g, d \div g>>
Frac(n, d) == Reduce(n, d, GCD(Abs(n), Abs(d)))

Whole(n) == <<n, 1>>
Add(a, b) == Frac(a[1] * b[2] + b[1] * a[2], a[2] * b[2])
Sub(a, b) == Frac(a[1] * b[2] - b[1] * a[2], a[2] * b[2])
Mul(a, b) == Frac(a[1] * b[1], a[2] * b[2])
RAbs(a) == <<Abs(a[1]), a[2]>>
Lt(a, b) == a[1] * b[2] < b[1] * a[2]
Leq(a, b) == a[1] * b[2] <= b[1] * a[2]
Geq(a, b) == Leq(b, a)
Gt(a, b) == Lt(b, a)

----------------------------------------------------------------------------
(* numpy.interp(x, [x0, x1], [y0, y1]) for one point and two knots: the    *)
(* value is held at y0 left of x0 and at y1 right of x1.                   *)

\* as interp, without the hold outside [x0, x1]: the line is extended
interp_extrapolating(x, x0, x1, y0, y1) ==
    Frac(y0 * x[2] * (x1 - x0) + (x[1] - x0 * x[2]) * (y1 - y0), x[2] * (x1 - x0))

interp(x, x0, x1, y0, y1) ==
    IF Leq(x, Whole(x0)) THEN Whole(y0)
    ELSE IF Geq(x, Whole(x1)) THEN Whole(y1)
    ELSE \* y0 + (x - x0) * (y1 - y0) / (x1 - x0)
         Frac(y0 * x[2] * (x1 - x0) + (x[1] - x0 * x[2]) * (y1 - y0), x[2] * (x1 - x0))

\* as calculate_sst_score, with the band from 28 to 31 falling from 8 to 5
calculate_sst_score_falling_band(t) ==
    IF Geq(t, Whole(31)) THEN interp(t, 31, 35, 8, 10)
    ELSE IF Leq(Whole(28), t) /\ Lt(t, Whole(31)) THEN interp(t, 28, 31, 8, 5)
    ELSE IF Leq(Whole(26), t) /\ Lt(t, Whole(28)) THEN interp(t, 26, 28, 2, 5)
    ELSE interp(t, 20, 26, 0, 3)

calculate_sst_score(t) ==
    IF Geq(t, Whole(31)) THEN interp(t, 31, 35, 8, 10)
    ELSE IF Leq(Whole(28), t) /\ Lt(t, Whole(31)) THEN interp(t, 28, 31, 5, 8)
    ELSE IF Leq(Whole(26), t) /\ Lt(t, Whole(28)) THEN interp(t, 26, 28, 2, 5)
    ELSE interp(t, 20, 26, 0, 3)

calculate_shear_score(shear) ==
    IF Lt(shear, Whole(5)) THEN interp(shear, 0, 5, 10, 8)
    ELSE IF Leq(Whole(5), shear) /\ Lt(shear, Whole(10)) THEN interp(shear, 5, 10, 8, 6)
    ELSE IF Leq(Whole(10), shear) /\ Lt(shear, Whole(15)) THEN interp(shear, 10, 15, 6, 4)
    ELSE IF Leq(Whole(15), shear) /\ Leq(shear, Whole(25)) THEN interp(shear, 15, 25, 4, 2)
    ELSE interp(shear, 25, 40, 2, 0)

calculate_humidity_score(h) ==
    IF Gt(h, Whole(75)) THEN interp(h, 75, 100, 8, 10)
    ELSE IF Leq(Whole(50), h) /\ Leq(h, Whole(75)) THEN interp(h, 50, 75, 4, 7)
    ELSE IF Leq(Whole(40), h) /\ Lt(h, Whole(50)) THEN Whole(3)
    ELSE interp(h, 0, 40, 0, 2)

calculate_ohc_score(o) ==
    IF Lt(o, Whole(25)) THEN Whole(1)
    ELSE IF Leq(Whole(25), o) /\ Lt(o, Whole(75)) THEN interp(o, 25, 74, 2, 4)
    ELSE IF Leq(Whole(75), o) /\ Lt(o, Whole(125)) THEN interp(o, 75, 124, 4, 8)
    ELSE IF Leq(Whole(125), o) /\ Lt(o, Whole(150)) THEN Whole(9)
    ELSE Whole(10)

calculate_divergence_score(d) ==
    IF Leq(Whole(0), d) /\ Leq(d, Whole(10)) THEN interp(d, 0, 10, 0, 5)
    ELSE IF Leq(Whole(11), d) /\ Leq(d, Whole(20)) THEN interp(d, 11, 20, 5, 7)
    ELSE IF Leq(Whole(21), d) /\ Leq(d, Whole(31)) THEN interp(d, 21, 31, 7, 9)
    ELSE Whole(10)

\* TCIPIapp.py (the convergence variant): the same bands as the divergence
calculate_convergence_score(c) ==
    IF Leq(Whole(0), c) /\ Leq(c, Whole(10)) THEN interp(c, 0, 10, 0, 5)
    ELSE IF Leq(Whole(11), c) /\ Leq(c, Whole(20)) THEN interp(c, 11, 20, 5, 7)
    ELSE IF Leq(Whole(21), c) /\ Leq(c, Whole(31)) THEN interp(c, 21, 31, 7, 9)
    ELSE Whole(10)

\* 0.35*s + 0.30*w + 0.25*h + 0.05*d + 0.05*o, over the common denominator
calculate_tcipi(s, w, h, d, o) ==
    Frac(  35 * s[1] * w[2] * h[2] * d[2] * o[2]
         + 30 * w[1] * s[2] * h[2] * d[2] * o[2]
         + 25 * h[1] * s[2] * w[2] * d[2] * o[2]
         +  5 * d[1] * s[2] * w[2] * h[2] * o[2]
         +  5 * o[1] * s[2] * w[2] * h[2] * d[2],
         100 * s[2] * w[2] * h[2] * d[2] * o[2])

----------------------------------------------------------------------------
(* round(value * 2) / 2.  Python 3's round() of a float to an integer      *)
(* rounds to the nearest integer and, exactly halfway, to the even one.    *)

Floor(a) == a[1] \div a[2]

\* q = floor(a); r2/d = twice the fraction a - q
py_round_at(q, r2, d) ==
    IF r2 < d THEN q
    ELSE IF r2 > d THEN q + 1
    ELSE IF q % 2 = 0 THEN q ELSE q + 1

\* as py_round, with halves rounded up: floor(a + 0.5)
py_round_half_up(a) == (2 * a[1] + a[2]) \div (2 * a[2])

py_round(a) == py_round_at(Floor(a), 2 * (a[1] - Floor(a) * a[2]), a[2])

round_to_nearest_half(value) == Frac(py_round(<<2 * value[1], value[2]>>), 2)

\* TCIPIapp.py (the convergence variant)
round_to_nearest_half_conv(value) == Frac(py_round(<<2 * value[1], value[2]>>), 2)

\* as get_tcipi_category, with the lower bounds of the convergence variant
get_tcipi_category_conv_bounds(tcipi) ==
    IF Geq(tcipi, Frac(17, 2)) THEN <<"Very High", "#FF6B6B", "#FFEBEE">>
    ELSE IF Geq(tcipi, Whole(7)) THEN <<"High", "#FF9800", "#FFF3E0">>
    ELSE IF Geq(tcipi, Frac(11, 2)) THEN <<"Medium", "#FFC107", "#FFFDE7">>
    ELSE IF Geq(tcipi, Whole(4)) THEN <<"Low", "#4CAF50", "#E8F5E8">>
    ELSE <<"Very Low", "#2196F3", "#E3F2FD">>

\* TCIPIPROJECT/TCIPIapp.py: <<category, colour, background>>
get_tcipi_category(tcipi) ==
    IF Geq(tcipi, Whole(8)) THEN <<"Very High", "#FF6B6B", "#FFEBEE">>
    ELSE IF Geq(tcipi, Frac(13, 2)) THEN <<"High", "#FF9800", "#FFF3E0">>
    ELSE IF Geq(tcipi, Whole(5)) THEN <<"Medium", "#FFC107", "#FFFDE7">>
    ELSE IF Geq(tcipi, Frac(7, 2)) THEN <<"Low", "#4CAF50", "#E8F5E8">>
    ELSE <<"Very Low", "#2196F3", "#E3F2FD">>

\* TCIPIapp.py (the convergence variant)
get_tcipi_category_conv(tcipi) ==
    IF Geq(tcipi, Frac(17, 2)) THEN <<"Very High", "#FF6B6B", "#FFEBEE">>
    ELSE IF Geq(tcipi, Whole(7)) THEN <<"High", "#FF9800", "#FFF3E0">>
    ELSE IF Geq(tcipi, Frac(11, 2)) THEN <<"Medium", "#FFC107", "#FFFDE7">>
    ELSE IF Geq(tcipi, Whole(4)) THEN <<"Low", "#4CAF50", "#E8F5E8">>
    ELSE <<"Very Low", "#2196F3", "#E3F2FD">>

\* as apply_size_adjustment, with the category test of both sizes inverted
apply_size_adjustment_inverted(tcipi, size, cat) ==
    IF size = "Small"
    THEN IF cat \notin {"Medium", "High", "Very High"}
         THEN Add(tcipi, Frac(3, 4))
         ELSE Sub(tcipi, Frac(3, 4))
    ELSE IF size = "Large"
    THEN IF cat \notin {"Medium", "High", "Very High"}
         THEN Sub(tcipi, Frac(1, 2))
         ELSE Add(tcipi, Frac(1, 2))
    ELSE tcipi

apply_size_adjustment(tcipi, size, cat) ==
    IF size = "Small"
    THEN IF cat \in {"Medium", "High", "Very High"}
         THEN Add(tcipi, Frac(3, 4))
         ELSE Sub(tcipi, Frac(3, 4))
    ELSE IF size = "Large"
    THEN IF cat \in {"Medium", "High", "Very High"}
         THEN Sub(tcipi, Frac(1, 2))
         ELSE Add(tcipi, Frac(1, 2))
    ELSE tcipi

\* as clamp_0_10, without the clamp
clamp_missing(v) == v

\* max(0, min(10, final_tcipi))
clamp_0_10(v) ==
    IF Geq(v, Whole(10)) THEN Whole(10) ELSE IF Leq(v, Whole(0)) THEN Whole(0) ELSE v

\* as size_adjusted_tcipi, with every size but "None" adjusted and every
\* size but "Small" taken for "Large"
size_adjusted_tcipi_average_as_large(base, size, base_cat) ==
    IF size # "None (No Adjustment)"
    THEN clamp_0_10(round_to_nearest_half(
             apply_size_adjustment(base, IF size = "Small" THEN size ELSE "Large", base_cat)))
    ELSE base

\* lines 190-197: the adjustment, its re-quantization and the clamp, or no change
size_adjusted_tcipi(base, size, base_cat) ==
    IF size # "None (No Adjustment)" /\ size # "Average"
    THEN clamp_0_10(round_to_nearest_half(apply_size_adjustment(base, size, base_cat)))
    ELSE base

\* round_to_nearest_half of the double that calculate_tcipi returns: the double
\* sum differs from the exact sum by a few units in the last place, which
\* decides the rounding exactly when the exact sum lies halfway between two
\* multiples of 0.5 (0.35*0 + 0.30*0.5 + 0.25*2 + 0.05*8.5 + 0.05*3.5 is
\* 1.2500000000000002 and rounds to 1.5, where 1.25 rounds to 1.0).
base_tcipi_values(v) ==
    IF (4 * v[1]) % v[2] = 0 /\ ((4 * v[1]) \div v[2]) % 2 = 1
    THEN {Frac((2 * v[1]) \div v[2], 2), Frac((2 * v[1]) \div v[2] + 1, 2)}
    ELSE {round_to_nearest_half(v)}

----------------------------------------------------------------------------
(* The TCIPI page.  Streamlit runs the script from top to bottom at load   *)
(* and again whenever a widget changes; a run computes every result from   *)
(* the widgets' values.                                                    *)

GridPoints == 3

SizeOptions == {"None (No Adjustment)", "Small", "Average", "Large"}

\* the values a number_input is set to: its min_value, max_value and default,
\* and GridPoints equal steps between the two ends
WidgetValues(lo, hi, dflt) ==
    {Whole(lo), Whole(hi), Whole(dflt)}
        \cup {Add(Whole(lo), Frac(k * (hi - lo), GridPoints)) : k \in 0..GridPoints}

SstValues == WidgetValues(15, 35, 28)
ShearValues == WidgetValues(0, 50, 10)
HumidityValues == WidgetValues(0, 100, 65)
DivergenceValues == WidgetValues(0, 50, 15)
OhcValues == WidgetValues(0, 200, 75)

\* lines 180-184 at each value the widget takes
sst_score_at == [v \in SstValues |-> round_to_nearest_half(calculate_sst_score(v))]
shear_score_at == [v \in ShearValues |-> round_to_nearest_half(calculate_shear_score(v))]
humidity_score_at ==
    [v \in HumidityValues |-> round_to_nearest_half(calculate_humidity_score(v))]
divergence_score_at ==
    [v \in DivergenceValues |-> round_to_nearest_half(calculate_divergence_score(v))]
ohc_score_at == [v \in OhcValues |-> round_to_nearest_half(calculate_ohc_score(v))]

\* as Results, with the base category displayed
Results_base_category(s, w, h, d, o, z, ss, ws, hs, ds, os, b, bc, f) ==
    /\ sst' = s /\ wind_shear' = w /\ humidity' = h
    /\ upper_divergence' = d /\ ohc' = o /\ size_adjustment' = z
    /\ sst_score' = ss /\ shear_score' = ws /\ humidity_score' = hs
    /\ divergence_score' = ds /\ ohc_score' = os
    /\ base_tcipi' = b
    /\ base_category' = bc
    /\ final_tcipi' = f
    /\ category' = bc

\* lines 188-199, from the quantized base index b
Results(s, w, h, d, o, z, ss, ws, hs, ds, os, b, bc, f) ==
    /\ sst' = s /\ wind_shear' = w /\ humidity' = h
    /\ upper_divergence' = d /\ ohc' = o /\ size_adjustment' = z
    /\ sst_score' = ss /\ shear_score' = ws /\ humidity_score' = hs
    /\ divergence_score' = ds /\ ohc_score' = os
    /\ base_tcipi' = b
    /\ base_category' = bc
    /\ final_tcipi' = f
    /\ category' = get_tcipi_category(f)[1]

Adjusted(s, w, h, d, o, z, ss, ws, hs, ds, os, b, bc) ==
    Results(s, w, h, d, o, z, ss, ws, hs, ds, os, b, bc, size_adjusted_tcipi(b, z, bc))

Scored(s, w, h, d, o, z, ss, ws, hs, ds, os) ==
    \E b \in base_tcipi_values(calculate_tcipi(ss, ws, hs, ds, os)) :
        Adjusted(s, w, h, d, o, z, ss, ws, hs, ds, os, b, get_tcipi_category(b)[1])

\* one run of the script (lines 180-199) on the widgets' values
RunScript(s, w, h, d, o, z) ==
    Scored(s, w, h, d, o, z, sst_score_at[s], shear_score_at[w], humidity_score_at[h],
           divergence_score_at[d], ohc_score_at[o])

\* the page as first loaded: every widget at its default
InitApp ==
    \E b \in base_tcipi_values(calculate_tcipi(
                round_to_nearest_half(calculate_sst_score(Whole(28))),
                round_to_nearest_half(calculate_shear_score(Whole(10))),
                round_to_nearest_half(calculate_humidity_score(Whole(65))),
                round_to_nearest_half(calculate_divergence_score(Whole(15))),
                round_to_nearest_half(calculate_ohc_score(Whole(75))))) :
        /\ sst = Whole(28) /\ wind_shear = Whole(10) /\ humidity = Whole(65)
        /\ upper_divergence = Whole(15) /\ ohc = Whole(75)
        /\ size_adjustment = "None (No Adjustment)"
        /\ sst_score = round_to_nearest_half(calculate_sst_score(Whole(28)))
        /\ shear_score = round_to_nearest_half(calculate_shear_score(Whole(10)))
        /\ humidity_score = round_to_nearest_half(calculate_humidity_score(Whole(65)))
        /\ divergence_score = round_to_nearest_half(calculate_divergence_score(Whole(15)))
        /\ ohc_score = round_to_nearest_half(calculate_ohc_score(Whole(75)))
        /\ base_tcipi = b
        /\ base_category = get_tcipi_category(b)[1]
        /\ final_tcipi = b
        /\ category = get_tcipi_category(b)[1]

SetSst ==
    /\ \E v \in SstValues :
         RunScript(v, wind_shear, humidity, upper_divergence, ohc, size_adjustment)
    /\ UNCHANGED <<fnVars, windVars>>

SetWindShear ==
    /\ \E v \in ShearValues :
         RunScript(sst, v, humidity, upper_divergence, ohc, size_adjustment)
    /\ UNCHANGED <<fnVars, windVars>>

SetHumidity ==
    /\ \E v \in HumidityValues :
         RunScript(sst, wind_shear, v, upper_divergence, ohc, size_adjustment)
    /\ UNCHANGED <<fnVars, windVars>>

SetUpperDivergence ==
    /\ \E v \in DivergenceValues :
         RunScript(sst, wind_shear, humidity, v, ohc, size_adjustment)
    /\ UNCHANGED <<fnVars, windVars>>

SetOhc ==
    /\ \E v \in OhcValues :
         RunScript(sst, wind_shear, humidity, upper_divergence, v, size_adjustment)
    /\ UNCHANGED <<fnVars, windVars>>

SetSizeAdjustment ==
    /\ \E z \in SizeOptions :
         RunScript(sst, wind_shear, humidity, upper_divergence, ohc, z)
    /\ UNCHANGED <<fnVars, windVars>>

NextApp ==
    \/ SetSst
    \/ SetWindShear
    \/ SetHumidity
    \/ SetUpperDivergence
    \/ SetOhc
    \/ SetSizeAdjustment

----------------------------------------------------------------------------
(* testwind.py: the two classifiers of a station reading *)

\* as get_border_color, with the bands tested in ascending order
get_border_color_ascending(speed_mph) ==
    IF Geq(speed_mph, Whole(0)) THEN "#002835"
    ELSE IF Geq(speed_mph, Whole(39)) THEN "#FFA500"
    ELSE IF Geq(speed_mph, Whole(74)) THEN "#FF0000"
    ELSE IF Geq(speed_mph, Whole(111)) THEN "#800080"
    ELSE "#ADD8E6"

\* the colour of the intensity band; the caller passes the speed in km/h
get_border_color(speed_mph) ==
    IF Geq(speed_mph, Whole(111)) THEN "#800080"      \* major hurricane
    ELSE IF Geq(speed_mph, Whole(74)) THEN "#FF0000"  \* hurricane
    ELSE IF Geq(speed_mph, Whole(39)) THEN "#FFA500"  \* tropical storm
    ELSE IF Geq(speed_mph, Whole(0)) THEN "#002835"   \* tropical depression
    ELSE "#ADD8E6"                                    \* default

\* the arrows are named by where they point: "N" is the up arrow, "NE" the
\* up-right arrow, ..., "fallback" the anticlockwise-circle marker
directions ==
    << <<0, "N">>, <<45, "NE">>, <<90, "E">>, <<135, "SE">>,
       <<180, "S">>, <<225, "SW">>, <<270, "W">>, <<315, "NW">>, <<360, "N">> >>

\* as in_window, with the edges of the window left out
in_window_open(degree, angle) ==
    \/ Lt(RAbs(Sub(degree, Whole(angle))), Frac(45, 2))
    \/ Lt(RAbs(Sub(degree, Whole(angle - 360))), Frac(45, 2))

\* abs(degree - angle) <= 22.5 or abs(degree - (angle-360)) <= 22.5
in_window(degree, angle) ==
    \/ Leq(RAbs(Sub(degree, Whole(angle))), Frac(45, 2))
    \/ Leq(RAbs(Sub(degree, Whole(angle - 360))), Frac(45, 2))

\* the for loop from entry i on: the first entry whose window holds the degree
RECURSIVE arrow_from(_, _)
arrow_from(degree, i) ==
    IF i > Len(directions) THEN "fallback"
    ELSE IF in_window(degree, directions[i][1]) THEN directions[i][2]
    ELSE arrow_from(degree, i + 1)

wind_direction_arrow(degree) == arrow_from(degree, 1)

\* fetch_wind_data lines 120-121: m/s to km/h
speed_kmh_of(speed_m_s) == Mul(speed_m_s, Frac(36, 10))

----------------------------------------------------------------------------
(* testwind.py: one station's fetch.  A JSON value is [t, v]: a number     *)
(* ("num", with its value v), null, a string, or "absent" for a key the    *)
(* object does not hold.  A response is the outcome of requests.get with   *)
(* the parsed body: kind "timeout" and "connection_error" (requests.get    *)
(* raises), "http_error" (raise_for_status raises), "not_json" (resp.json  *)
(* raises) or "json", whose body is an object with the keys wind (speed,   *)
(* deg), main (pressure) and rain (1h, 3h), each held or not.              *)

Num(v) == [t |-> "num", v |-> v]
Absent == [t |-> "absent", v |-> Whole(0)]
Null == [t |-> "null", v |-> Whole(0)]
Str == [t |-> "str", v |-> Whole(0)]
\* values of Python for which JSON has no counterpart
None == [t |-> "None", v |-> Whole(0)]
NA == [t |-> "N/A", v |-> Whole(0)]

Body(w, speed, deg, m, pressure, r, h1, h3) ==
    [wind |-> w, speed |-> speed, deg |-> deg, main |-> m, pressure |-> pressure,
     rain |-> r, h1 |-> h1, h3 |-> h3]
NoBody == Body(FALSE, Absent, Absent, FALSE, Absent, FALSE, Absent, Absent)
Failure(kind) == [kind |-> kind, data |-> NoBody]
Json(data) == [kind |-> "json", data |-> data]

None5 == <<None, None, None, None, None>>

\* lines 127-132
precipitation_of(data) ==
    IF data.rain /\ data.h1.t # "absent" THEN data.h1
    ELSE IF data.rain /\ data.h3.t # "absent" THEN data.h3
    ELSE Num(Whole(0))

\* lines 120-134, for a body whose wind.speed is a number and which holds main
reading_of(data) ==
    << Num(Mul(speed_kmh_of(data.speed.v), Frac(621371, 1000000))),
       Num(speed_kmh_of(data.speed.v)),
       IF data.deg.t = "absent" THEN Num(Whole(0)) ELSE data.deg,
       precipitation_of(data),
       IF data.pressure.t = "absent" THEN NA ELSE data.pressure >>

\* <<mph, kmh, direction, precipitation, pressure>>, or five None when
\* anything in the try block raises
fetch_wind_data(resp) ==
    IF resp.kind # "json" THEN None5                \* lines 116-118 raise
    ELSE IF ~resp.data.wind THEN None5              \* data["wind"]: KeyError
    ELSE IF resp.data.speed.t = "absent" THEN None5 \* ["speed"]: KeyError
    ELSE IF resp.data.speed.t # "num" THEN None5    \* speed_m_s * 3.6: TypeError
    ELSE IF ~resp.data.main THEN None5              \* data["main"]: KeyError
    ELSE reading_of(resp.data)

----------------------------------------------------------------------------
(* testwind.py: the render loop over the station table (lines 138-162).    *)
(* The table CITIES has 20 stations; the model keeps its first NumStations.*)

NumStations == 5
cols_per_row == 4

Stations == 1..NumStations

\* what the weather service may answer in a render
FullBody ==
    Body(TRUE, Num(Whole(5)), Num(Whole(90)), TRUE, Num(Whole(1013)),
         TRUE, Num(Frac(1, 2)), Absent)
RenderResponses ==
    { Failure("timeout"), Failure("http_error"), Failure("not_json"),
      Json(Body(TRUE, Absent, Num(Whole(90)), TRUE, Num(Whole(1013)),
                FALSE, Absent, Absent)),
      Json(FullBody),
      Json([FullBody EXCEPT !.speed = Num(Whole(40)), !.deg = Absent]),
      Json([FullBody EXCEPT !.deg = Null]) }

Pending == [t |-> "pending", col |-> 0, border_color |-> "", arrow |-> ""]

InitWind ==
    /\ server \in [Stations -> RenderResponses]
    /\ pos = 1
    /\ reading = [s \in Stations |-> None5]
    /\ page = [s \in Stations |-> Pending]
    /\ fetched = << >>
    /\ wpc = "loop"

\* the station's column in its row: j of enumerate(cities_list[i:i+cols_per_row])
column_of(s) == (s - 1) % cols_per_row

\* lines 144-159: the fetch gave a reading and the box is drawn
ShowStation ==
    /\ wpc = "loop" /\ pos <= NumStations
    /\ fetch_wind_data(server[pos])[1] # None
    /\ fetch_wind_data(server[pos])[3].t = "num"
    /\ reading' = [reading EXCEPT ![pos] = fetch_wind_data(server[pos])]
    /\ page' = [page EXCEPT ![pos] =
                  [t |-> "box", col |-> column_of(pos),
                   border_color |-> get_border_color(fetch_wind_data(server[pos])[2].v),
                   arrow |-> wind_direction_arrow(fetch_wind_data(server[pos])[3].v)]]
    /\ fetched' = Append(fetched, pos)
    /\ pos' = pos + 1
    /\ wpc' = IF pos = NumStations THEN "done" ELSE "loop"
    /\ UNCHANGED server
    /\ UNCHANGED <<appVars, fnVars>>

\* lines 144-147: the fetch gave a reading whose direction is no number;
\* abs(degree - angle) raises TypeError in wind_direction_arrow, nothing
\* catches it and the script stops
ShowStationRaises ==
    /\ wpc = "loop" /\ pos <= NumStations
    /\ fetch_wind_data(server[pos])[1] # None
    /\ fetch_wind_data(server[pos])[3].t # "num"
    /\ reading' = [reading EXCEPT ![pos] = fetch_wind_data(server[pos])]
    /\ fetched' = Append(fetched, pos)
    /\ wpc' = "raised"
    /\ UNCHANGED <<server, pos, page>>
    /\ UNCHANGED <<appVars, fnVars>>

\* lines 144-145 and 160-162: the fetch gave None and the error is shown
ShowUnavailable ==
    /\ wpc = "loop" /\ pos <= NumStations
    /\ fetch_wind_data(server[pos])[1] = None
    /\ reading' = [reading EXCEPT ![pos] = fetch_wind_data(server[pos])]
    /\ page' = [page EXCEPT ![pos] =
                  [t |-> "error", col |-> column_of(pos), border_color |-> "", arrow |-> ""]]
    /\ fetched' = Append(fetched, pos)
    /\ pos' = pos + 1
    /\ wpc' = IF pos = NumStations THEN "done" ELSE "loop"
    /\ UNCHANGED server
    /\ UNCHANGED <<appVars, fnVars>>

NextWind ==
    \/ ShowStation
    \/ ShowStationRaises
    \/ ShowUnavailable

WindIdle ==
    /\ server = [s \in Stations |-> Failure("timeout")]
    /\ pos = 1
    /\ reading = [s \in Stations |-> None5]
    /\ page = [s \in Stations |-> Pending]
    /\ fetched = << >>
    /\ wpc = "idle"

FnIdle ==
    /\ fn = "none" /\ arg = Whole(0) /\ raw = Whole(0) /\ out = Whole(0)
    /\ fpc = "idle"

Init ==
    /\ InitApp
    /\ FnIdle
    /\ WindIdle

Next == NextApp

Spec == Init /\ [][Next]_vars

InitRender ==
    /\ InitApp
    /\ FnIdle
    /\ InitWind

SpecWind == InitRender /\ [][NextWind]_vars

----------------------------------------------------------------------------
(* The functions on their own: one call of one function on one argument.   *)

MaxArg == 1000

\* measurements in steps of 0.05 (up to MaxArg/20) and of 0.25 (up to MaxArg/4)
Measurements ==
    {Frac(n, 20) : n \in -MaxArg..MaxArg} \cup {Frac(n, 4) : n \in -MaxArg..MaxArg}
\* values to quantize, in steps of 0.01 and of 0.05
Reals == {Frac(n, 100) : n \in -MaxArg..MaxArg} \cup {Frac(n, 20) : n \in -MaxArg..MaxArg}
\* directions in steps of half a degree
Degrees == {Frac(n, 2) : n \in -MaxArg..MaxArg}
\* speeds in m/s in steps of 1/18, which are steps of 0.2 km/h
Speeds == {Frac(n, 18) : n \in -MaxArg..MaxArg}

\* responses to one request of fetch_wind_data (testwind.py lines 116-118):
\* the three failures, and the 200 bodies with each of wind, wind.speed,
\* wind.deg, main, main.pressure, rain, rain.1h and rain.3h held or not; a
\* key inside an object that is missing is missing too
FetchResponses ==
    {Failure(k) : k \in {"timeout", "http_error", "not_json"}} \cup
    {Json(b) : b \in
        {d \in {Body(w, s, g, m, p, r, h1, h3) :
                    w \in BOOLEAN, s \in {Num(Whole(5)), Null, Absent},
                    g \in {Num(Whole(90)), Null, Absent},
                    m \in BOOLEAN, p \in {Num(Whole(1013)), Absent},
                    r \in BOOLEAN, h1 \in {Num(Frac(1, 2)), Absent},
                    h3 \in {Num(Whole(2)), Absent}} :
            /\ ~d.wind => (d.speed = Absent /\ d.deg = Absent)
            /\ ~d.main => d.pressure = Absent
            /\ ~d.rain => (d.h1 = Absent /\ d.h3 = Absent)}}

ScoreFunctions ==
    {"calculate_sst_score", "calculate_shear_score", "calculate_humidity_score",
     "calculate_ohc_score", "calculate_divergence_score", "calculate_convergence_score"}

InitFn ==
    /\ InitApp
    /\ WindIdle
    /\ \/ fn \in ScoreFunctions /\ arg \in Measurements
       \/ fn \in {"round_to_nearest_half", "round_to_nearest_half_conv"} /\ arg \in Reals
       \/ fn = "wind_direction_arrow" /\ arg \in Degrees
       \/ fn = "get_border_color" /\ arg \in Speeds
       \/ fn = "fetch_wind_data" /\ arg \in FetchResponses
       \/ fn \in {"get_tcipi_category", "get_tcipi_category_conv"} /\ arg \in Reals


    /\ raw = Whole(0) /\ out = Whole(0)
    /\ fpc = "call"

\* sub-score quantization, TCIPIPROJECT/TCIPIapp.py lines 180-184 and
\* TCIPIapp.py lines 152-156: raw is the function's value, out its quantization
Return(r, o) ==
    /\ raw' = r /\ out' = o /\ fpc' = "return"
    /\ UNCHANGED <<fn, arg>>
    /\ UNCHANGED <<appVars, windVars>>

CallSstScore ==
    /\ fpc = "call" /\ fn = "calculate_sst_score"
    /\ Return(calculate_sst_score(arg), round_to_nearest_half(calculate_sst_score(arg)))

CallShearScore ==
    /\ fpc = "call" /\ fn = "calculate_shear_score"
    /\ Return(calculate_shear_score(arg),
              round_to_nearest_half(calculate_shear_score(arg)))

CallHumidityScore ==
    /\ fpc = "call" /\ fn = "calculate_humidity_score"
    /\ Return(calculate_humidity_score(arg),
              round_to_nearest_half(calculate_humidity_score(arg)))

CallOhcScore ==
    /\ fpc = "call" /\ fn = "calculate_ohc_score"
    /\ Return(calculate_ohc_score(arg), round_to_nearest_half(calculate_ohc_score(arg)))

CallDivergenceScore ==
    /\ fpc = "call" /\ fn = "calculate_divergence_score"
    /\ Return(calculate_divergence_score(arg),
              round_to_nearest_half(calculate_divergence_score(arg)))

CallConvergenceScore ==
    /\ fpc = "call" /\ fn = "calculate_convergence_score"
    /\ Return(calculate_convergence_score(arg),
              round_to_nearest_half_conv(calculate_convergence_score(arg)))

CallRoundToNearestHalf ==
    /\ fpc = "call" /\ fn = "round_to_nearest_half"
    /\ Return(arg, round_to_nearest_half(arg))

CallRoundToNearestHalfConv ==
    /\ fpc = "call" /\ fn = "round_to_nearest_half_conv"
    /\ Return(arg, round_to_nearest_half_conv(arg))

CallWindDirectionArrow ==
    /\ fpc = "call" /\ fn = "wind_direction_arrow"
    /\ Return(arg, wind_direction_arrow(arg))

\* testwind.py lines 120-121 and 146: the band of a reading's speed
CallGetBorderColor ==
    /\ fpc = "call" /\ fn = "get_border_color"
    /\ Return(speed_kmh_of(arg), get_border_color(speed_kmh_of(arg)))

\* testwind.py line 145: raw is the response, out the five-tuple returned
CallFetchWindData ==
    /\ fpc = "call" /\ fn = "fetch_wind_data"
    /\ Return(arg, fetch_wind_data(arg))

\* TCIPIPROJECT/TCIPIapp.py line 199: raw is the index, out the category
CallGetTcipiCategory ==
    /\ fpc = "call" /\ fn = "get_tcipi_category"
    /\ Return(arg, get_tcipi_category(arg)[1])

\* TCIPIapp.py line 160
CallGetTcipiCategoryConv ==
    /\ fpc = "call" /\ fn = "get_tcipi_category_conv"
    /\ Return(arg, get_tcipi_category_conv(arg)[1])

NextFn ==
    \/ CallSstScore
    \/ CallShearScore
    \/ CallHumidityScore
    \/ CallOhcScore
    \/ CallDivergenceScore
    \/ CallConvergenceScore
    \/ CallRoundToNearestHalf
    \/ CallRoundToNearestHalfConv
    \/ CallWindDirectionArrow
    \/ CallGetBorderColor
    \/ CallFetchWindData
    \/ CallGetTcipiCategory
    \/ CallGetTcipiCategoryConv

SpecFn == InitFn /\ [][NextFn]_vars

----------------------------------------------------------------------------
(* Properties *)

IsHalfMultiple(v) == (2 * v[1]) % v[2] = 0
InUnit10(v) == Geq(v, Whole(0)) /\ Leq(v, Whole(10))

\* C1: for every measurement, inside or outside the documented input range,
\* each quantized sub-score lies in [0, 10] and is a multiple of 0.5.
C1_SubScoreRange ==
    (fpc = "return" /\ fn \in ScoreFunctions) => (InUnit10(out) /\ IsHalfMultiple(out))

\* a negative shear, outside the documented 0-50, has been scored
C1_Witness ==
    /\ fpc = "return" /\ fn = "calculate_shear_score"
    /\ Lt(arg, Whole(0)) /\ out = Whole(10)

\* C2: for every combination of the inputs and every size, the final index
\* lies in [0, 10] and is a multiple of 0.5.
C2_FinalRange == InUnit10(final_tcipi) /\ IsHalfMultiple(final_tcipi)

\* a Small cyclone on the highest base index: 10.75 is re-quantized to 11 and clamped
C2_Witness ==
    /\ size_adjustment = "Small" /\ base_tcipi = Whole(10) /\ final_tcipi = Whole(10)

\* C3 as stated: Small with a High base index gives the base index plus 0.75,
\* clamped to at most 10.
C3_AsStated ==
    (size_adjustment = "Small" /\ base_category = "High")
        => final_tcipi = clamp_0_10(Add(base_tcipi, Frac(3, 4)))

\* C3 as amended: Small with a High base index gives the base index plus 0.75
\* re-quantized to the nearest multiple of 0.5, halfway cases to the even
\* multiple: 6.5 gives 7.0, 7.0 gives 8.0 and 7.5 gives 8.0; no clamp acts.
C3_SmallHigh ==
    (size_adjustment = "Small" /\ base_category = "High")
        => /\ base_tcipi \in {Frac(13, 2), Whole(7), Frac(15, 2)}
           /\ base_tcipi = Frac(13, 2) => final_tcipi = Whole(7)
           /\ base_tcipi = Whole(7) => final_tcipi = Whole(8)
           /\ base_tcipi = Frac(15, 2) => final_tcipi = Whole(8)

C3_Witness ==
    /\ size_adjustment = "Small" /\ base_category = "High"
    /\ base_tcipi = Frac(13, 2) /\ final_tcipi = Whole(7)

\* C4: Large with a Low base index gives the base index plus 0.5.
C4_LargeLow ==
    (size_adjustment = "Large" /\ base_category = "Low")
        => final_tcipi = Add(base_tcipi, Frac(1, 2))

C4_Witness ==
    /\ size_adjustment = "Large" /\ base_category = "Low"
    /\ base_tcipi = Frac(9, 2) /\ final_tcipi = Whole(5)

\* a fetch that fails in one of the ways C5 lists: a timeout or network
\* error, a non-2xx status, a body that is no JSON, an incomplete body
\* (wind, wind.speed or main missing) or a malformed one (wind.speed or
\* wind.deg held but no number)
FetchFails(resp) ==
    \/ resp.kind # "json"
    \/ ~resp.data.wind
    \/ resp.data.speed.t # "num"
    \/ ~resp.data.main
    \/ resp.data.deg.t \notin {"num", "absent"}

LoopEnded == wpc \in {"done", "raised"}

\* C5: a station whose fetch fails gets the all-None reading, no exception
\* escapes, and every other station of the render is still fetched and gets
\* the reading that follows from its own response.
C5_AsStated ==
    /\ \A k \in 1..Len(fetched) :
          /\ FetchFails(server[fetched[k]]) => reading[fetched[k]] = None5
          /\ reading[fetched[k]] = fetch_wind_data(server[fetched[k]])
    /\ wpc # "raised"
    /\ LoopEnded => \A s \in Stations : \E k \in 1..Len(fetched) : fetched[k] = s

\* C6: one fetch per station, in table order, none repeated; the loop ends
\* with every station shown with a reading or marked unavailable.
C6_AsStated ==
    /\ Len(fetched) <= NumStations
    /\ \A k \in 1..Len(fetched) : fetched[k] = k
    /\ LoopEnded => \A s \in Stations : page[s].t \in {"box", "error"}

\* C7: with size None or Average the final index is the quantized base index
\* and the displayed category is the base category.
C7_NoAdjustment ==
    size_adjustment \in {"None (No Adjustment)", "Average"}
        => (final_tcipi = base_tcipi /\ category = base_category)

\* size Average on a base index that Small and Large would both change
C7_Witness ==
    /\ size_adjustment = "Average" /\ base_category = "Medium"
    /\ final_tcipi = base_tcipi /\ category = "Medium"

\* C8: round_to_nearest_half returns the multiple of 0.5 nearest its
\* argument and, halfway between two multiples, the one whose double is
\* even; 4.24 gives 4.0, 4.26 gives 4.5, 4.25 gives 4.0, 4.75 gives 5.0; in
\* both variants.
C8_RoundHalfEven ==
    (fpc = "return" /\ fn \in {"round_to_nearest_half", "round_to_nearest_half_conv"})
        => /\ IsHalfMultiple(out)
           /\ Leq(RAbs(Sub(arg, out)), Frac(1, 4))
           /\ RAbs(Sub(arg, out)) = Frac(1, 4) => ((2 * out[1]) \div out[2]) % 2 = 0
           /\ arg = Frac(424, 100) => out = Whole(4)
           /\ arg = Frac(426, 100) => out = Frac(9, 2)
           /\ arg = Frac(425, 100) => out = Whole(4)
           /\ arg = Frac(475, 100) => out = Whole(5)

C8_Witness ==
    /\ fpc = "return" /\ fn = "round_to_nearest_half"
    /\ arg = Frac(17, 4) /\ out = Whole(4)

\* C9: every direction in [0, 360] gets the arrow of the nearest of the 8
\* compass points, never the fallback; 0 and 360 give north; a direction on
\* the edge between two buckets gets the lower-angle one, so 22.5 gives north.
C9_NearestCompassPoint ==
    (fpc = "return" /\ fn = "wind_direction_arrow"
        /\ Geq(arg, Whole(0)) /\ Leq(arg, Whole(360)))
        => /\ out # "fallback"
           /\ \E k \in 1..Len(directions) :
                 /\ out = directions[k][2]
                 /\ Leq(RAbs(Sub(arg, Whole(directions[k][1]))), Frac(45, 2))
                 /\ \A j \in 1..Len(directions) :
                       Leq(RAbs(Sub(arg, Whole(directions[j][1]))), Frac(45, 2)) => k <= j
           /\ arg \in {Whole(0), Whole(360), Frac(45, 2)} => out = "N"

C9_Witness ==
    /\ fpc = "return" /\ fn = "wind_direction_arrow"
    /\ arg = Frac(135, 2) /\ out = "NE"

\* C10: the band is chosen from the speed in km/h, 3.6 times the m/s value:
\* at least 111 major hurricane, at least 74 hurricane, at least 39 tropical
\* storm, at least 0 tropical depression; a non-negative speed never gets
\* the default colour.
C10_IntensityBand ==
    (fpc = "return" /\ fn = "get_border_color")
        => /\ raw = Frac(36 * arg[1], 10 * arg[2])
           /\ Geq(raw, Whole(111)) => out = "#800080"
           /\ (Geq(raw, Whole(74)) /\ Lt(raw, Whole(111))) => out = "#FF0000"
           /\ (Geq(raw, Whole(39)) /\ Lt(raw, Whole(74))) => out = "#FFA500"
           /\ (Geq(raw, Whole(0)) /\ Lt(raw, Whole(39))) => out = "#002835"
           /\ Geq(raw, Whole(0)) => out # "#ADD8E6"

\* exactly 111 km/h
C10_Witness ==
    /\ fpc = "return" /\ fn = "get_border_color"
    /\ raw = Whole(111) /\ out = "#800080"

\* C11: a 2xx JSON response that holds wind.speed yields an available
\* reading whatever optional fields are missing: no wind.deg gives direction
\* 0, no main.pressure gives "N/A", and the precipitation is rain.1h when
\* held, else rain.3h when held, else 0.
C11_AsStated ==
    (fpc = "return" /\ fn = "fetch_wind_data" /\ arg.kind = "json"
        /\ arg.data.wind /\ arg.data.speed.t = "num")
        => /\ out[1] # None /\ out[2] # None
           /\ arg.data.deg.t = "absent" => out[3] = Num(Whole(0))
           /\ arg.data.pressure.t = "absent" => out[5] = NA
           /\ (arg.data.rain /\ arg.data.h1.t # "absent") => out[4] = arg.data.h1
           /\ (arg.data.rain /\ arg.data.h1.t = "absent" /\ arg.data.h3.t # "absent")
                 => out[4] = arg.data.h3
           /\ (~arg.data.rain \/ (arg.data.h1.t = "absent" /\ arg.data.h3.t = "absent"))
                 => out[4] = Num(Whole(0))

\* the quantized sub-score of measurement x under scoring function f
SubScore(f, x) ==
    CASE f = "calculate_sst_score" -> round_to_nearest_half(calculate_sst_score(x))
      [] f = "calculate_shear_score" -> round_to_nearest_half(calculate_shear_score(x))
      [] f = "calculate_humidity_score" -> round_to_nearest_half(calculate_humidity_score(x))
      [] f = "calculate_ohc_score" -> round_to_nearest_half(calculate_ohc_score(x))
      [] f = "calculate_divergence_score" ->
            round_to_nearest_half(calculate_divergence_score(x))
      [] f = "calculate_convergence_score" ->
            round_to_nearest_half_conv(calculate_convergence_score(x))

\* the documented input range of each factor, <<lowest, highest>>
DocumentedRange(f) ==
    CASE f = "calculate_sst_score" -> <<15, 35>>
      [] f = "calculate_shear_score" -> <<0, 50>>
      [] f = "calculate_humidity_score" -> <<0, 100>>
      [] f = "calculate_ohc_score" -> <<0, 200>>
      [] f \in {"calculate_divergence_score", "calculate_convergence_score"} -> <<0, 50>>

\* C12: a measurement outside the documented input range of its factor is
\* scored, and gets the sub-score of the nearest edge of that range; every
\* SST of 35 or more scores 10.
C12_AsStated ==
    (fpc = "return" /\ fn \in ScoreFunctions)
        => /\ InUnit10(out)
           /\ Lt(arg, Whole(DocumentedRange(fn)[1]))
                 => out = SubScore(fn, Whole(DocumentedRange(fn)[1]))
           /\ Gt(arg, Whole(DocumentedRange(fn)[2]))
                 => out = SubScore(fn, Whole(DocumentedRange(fn)[2]))
           /\ (fn = "calculate_sst_score" /\ Geq(arg, Whole(35))) => out = Whole(10)

\* the category whose band holds v, for the bands' lower bounds vh > h > m > l
CategoryByBounds(v, vh, h, m, l) ==
    IF Geq(v, vh) THEN "Very High"
    ELSE IF Geq(v, h) THEN "High"
    ELSE IF Geq(v, m) THEN "Medium"
    ELSE IF Geq(v, l) THEN "Low"
    ELSE "Very Low"

\* the threshold table of the OHC/size-adjustment variant
ThresholdCategory(v) == CategoryByBounds(v, Whole(8), Frac(13, 2), Whole(5), Frac(7, 2))

\* the amount added for a size and the category of the base index
AdjustmentAmount(size, cat) ==
    IF size = "Small"
    THEN IF cat \in {"Medium", "High", "Very High"} THEN Frac(3, 4) ELSE Frac(-3, 4)
    ELSE IF cat \in {"Medium", "High", "Very High"} THEN Frac(-1, 2) ELSE Frac(1, 2)

\* C13: the base index is quantized, its category is that of the base index,
\* the amount depends only on the size and the base category, the adjusted
\* value is re-quantized and clamped, and the displayed category is the
\* category of the final index under the threshold table.
C13_PipelineOrder ==
    /\ IsHalfMultiple(base_tcipi)
    /\ base_category = ThresholdCategory(base_tcipi)
    /\ size_adjustment \in {"Small", "Large"}
          => final_tcipi = clamp_0_10(round_to_nearest_half(
                 Add(base_tcipi, AdjustmentAmount(size_adjustment, base_category))))
    /\ category = ThresholdCategory(final_tcipi)

\* Small on base 7.0: the displayed category is that of 8.0, not that of 7.0
C13_Witness ==
    /\ size_adjustment = "Small" /\ base_tcipi = Whole(7) /\ base_category = "High"
    /\ final_tcipi = Whole(8) /\ category = "Very High"

\* the five categories, lowest first
Categories == <<"Very Low", "Low", "Medium", "High", "Very High">>
CategoryRank(c) == CHOOSE k \in 1..Len(Categories) : Categories[k] = c

\* the category either variant gives index x
CategoryOf(f, x) ==
    IF f = "get_tcipi_category" THEN get_tcipi_category(x)[1]
    ELSE get_tcipi_category_conv(x)[1]

\* indices to compare a call's index with: every multiple of 0.25 in [-1, 11]
ComparedIndices == {Frac(k, 4) : k \in -4..44}

\* C14: get_tcipi_category gives every index one of the five categories,
\* never a lower one for a higher index, by the lower bounds 8.0/6.5/5.0/3.5
\* in the OHC/size-adjustment variant and 8.5/7.0/5.5/4.0 in the convergence
\* variant; the convergence variant's category is the other variant's or the
\* one just below it.
C14_CategoryFunction ==
    (fpc = "return" /\ fn \in {"get_tcipi_category", "get_tcipi_category_conv"})
        => /\ \E k \in 1..Len(Categories) : out = Categories[k]
           /\ fn = "get_tcipi_category"
                 => out = CategoryByBounds(arg, Whole(8), Frac(13, 2), Whole(5), Frac(7, 2))
           /\ fn = "get_tcipi_category_conv"
                 => out = CategoryByBounds(arg, Frac(17, 2), Whole(7), Frac(11, 2), Whole(4))
           /\ \A x \in ComparedIndices :
                 /\ Leq(x, arg) => CategoryRank(CategoryOf(fn, x)) <= CategoryRank(out)
                 /\ Geq(x, arg) => CategoryRank(CategoryOf(fn, x)) >= CategoryRank(out)
           /\ CategoryRank(get_tcipi_category(arg)[1])
                  - CategoryRank(get_tcipi_category_conv(arg)[1]) \in {0, 1}

\* index 8.0: Very High in the one variant, High in the convergence variant
C14_Witness ==
    /\ fpc = "return" /\ fn = "get_tcipi_category" /\ arg = Whole(8)
    /\ out = "Very High" /\ get_tcipi_category_conv(arg)[1] = "High"

\* the values the SST input takes at its step of 0.1 over 15-35
SstInputs == {Frac(k, 10) : k \in 150..350}

\* C15: over the documented range 15-35 the quantized SST sub-score never
\* falls as the SST rises, the band edges at 26, 28 and 31 included.
C15_AsStated ==
    (fpc = "return" /\ fn = "calculate_sst_score"
        /\ Geq(arg, Whole(15)) /\ Leq(arg, Whole(35)))
        => \A x \in SstInputs : Leq(x, arg) => Leq(SubScore(fn, x), out)

\* C15 as amended: over 15-35 the quantized SST sub-score never falls as the
\* SST rises, the band edges at 28 and 31 included, except across the band
\* edge at 26: an SST from 26 to below 27 can score less than an SST below
\* 26 (25.9 scores 3.0, 26.0 scores 2.0), by at most 1.0.
C15_MonotoneApartFrom26 ==
    (fpc = "return" /\ fn = "calculate_sst_score"
        /\ Geq(arg, Whole(15)) /\ Leq(arg, Whole(35)))
        => /\ \A x \in SstInputs :
                 Leq(x, arg)
                    => /\ Leq(SubScore(fn, x), Add(out, Whole(1)))
                       /\ \/ Lt(x, Whole(26)) /\ Geq(arg, Whole(26)) /\ Lt(arg, Whole(27))
                          \/ Leq(SubScore(fn, x), out)
           /\ arg = Frac(259, 10) => out = Whole(3)
           /\ arg = Whole(26) => out = Whole(2)

\* the band edge at 26 has been scored, below what 25.9 scores
C15_Witness ==
    /\ fpc = "return" /\ fn = "calculate_sst_score"
    /\ arg = Whole(26) /\ out = Whole(2)
    /\ SubScore(fn, Frac(259, 10)) = Whole(3)

\* the values the divergence and convergence inputs take at their step of
\* 0.5 over 0-50
DivergenceInputs == {Frac(k, 2) : k \in 0..100}

\* C16: over the documented range 0-50, at the input step of 0.5, the
\* quantized divergence (and convergence) sub-score never falls as the
\* measurement rises; a value between two listed bands never scores higher
\* than a larger value inside the next band.
C16_AsStated ==
    (fpc = "return" /\ fn \in {"calculate_divergence_score", "calculate_convergence_score"}
        /\ arg \in DivergenceInputs)
        => \A x \in DivergenceInputs : Leq(x, arg) => Leq(SubScore(fn, x), out)

\* the quantized base indices: the multiples of 0.5 in [0, 10]
BaseIndices == {Frac(k, 2) : k \in 0..20}

\* the final index of base index b under size z
FinalOf(b, z) == size_adjusted_tcipi(b, z, get_tcipi_category(b)[1])

\* C17: for a fixed size Small or Large, of two base indices the larger
\* never ends with a smaller final index or a lower displayed category.
C17_AsStated ==
    size_adjustment \in {"Small", "Large"}
        => \A b \in BaseIndices :
              Leq(b, base_tcipi)
                 => /\ Leq(FinalOf(b, size_adjustment), final_tcipi)
                    /\ CategoryRank(get_tcipi_category(FinalOf(b, size_adjustment))[1])
                          <= CategoryRank(category)

\* C17 as amended: for size Small the larger of two base indices never ends
\* with a smaller final index or a lower displayed category; for size Large
\* the same holds for every pair but 4.5 and 5.0: base 4.5 (Low) ends at 5.0
\* Medium and base 5.0 (Medium) ends at 4.5 Low.
C17_MonotoneApartFromMedium ==
    size_adjustment \in {"Small", "Large"}
        => /\ \A b \in BaseIndices :
                 Leq(b, base_tcipi)
                    => \/ /\ size_adjustment = "Large"
                          /\ b = Frac(9, 2) /\ base_tcipi = Whole(5)
                       \/ /\ Leq(FinalOf(b, size_adjustment), final_tcipi)
                          /\ CategoryRank(get_tcipi_category(
                                 FinalOf(b, size_adjustment))[1]) <= CategoryRank(category)
           /\ (size_adjustment = "Large" /\ base_tcipi = Frac(9, 2))
                 => (final_tcipi = Whole(5) /\ category = "Medium")
           /\ (size_adjustment = "Large" /\ base_tcipi = Whole(5))
                 => (final_tcipi = Frac(9, 2) /\ category = "Low")

\* Large on base 5.0 ends below what Large makes of base 4.5
C17_Witness ==
    /\ size_adjustment = "Large" /\ base_tcipi = Whole(5)
    /\ final_tcipi = Frac(9, 2) /\ category = "Low"
    /\ FinalOf(Frac(9, 2), size_adjustment) = Whole(5)

====
